---- MODULE Spec2Model ----
(***************************************************************************)
(* Model of the detector-readout pattern-noise correction core of          *)
(* src/src/jwst.py: cc_uniluminated_outliers, get_roeba, get_loom,         *)
(* get_last_minus_first, get_uniluminated_mask and the loom/roeba          *)
(* correction loop of stage1.                                              *)
(*                                                                         *)
(* Pixel values are numpy float64 values.  They are modelled as exact      *)
(* rationals <<numerator, denominator>> in lowest terms with a positive    *)
(* denominator, plus the IEEE not-a-number NaN == <<0, 0>>; rounding of    *)
(* the floating-point operations is not modelled.  Array indices are the   *)
(* Python indices (0-based).                                               *)
(***************************************************************************)
EXTENDS Integers, Sequences, FiniteSets, TLC

(***************************************************************************)
(* Bounds of the model.                                                    *)
(***************************************************************************)
\* number of rows of a frame
NRows == 3
\* number of columns of a frame
NCols == 2
\* raw pixel values are the integers 0 .. MaxVal
MaxVal == 2
\* number of integrations of a ramp
NInts == 1
\* number of groups of an integration
NGroups == 2
\* number of corrections applied in a row to one frame
MaxPasses == 1
\* the odd, even and column levels of a noise-free frame are 0 .. MaxLevel
MaxLevel == 5

Rows == 0 .. (NRows - 1)
Cols == 0 .. (NCols - 1)
Ints == 0 .. (NInts - 1)
Groups == 0 .. (NGroups - 1)

(***************************************************************************)
(* float64 arithmetic, as exact rationals with NaN.                        *)
(***************************************************************************)
NaN == <<0, 0>>

IsNaN(a) == a[2] = 0

Abs(n) == IF n < 0 THEN -n ELSE n

RECURSIVE GCD(_, _)
GCD(m, n) == IF n = 0 THEN m ELSE GCD(n, m % n)

\* the rational n/d in lowest terms (d # 0)
Rat(n, d) ==
    LET g == GCD(Abs(n), Abs(d))
        s == IF d < 0 THEN -1 ELSE 1
    IN  <<(s * n) \div g, (s * d) \div g>>

R(n) == <<n, 1>>

Zero == R(0)

RAdd(a, b) ==
    IF IsNaN(a) \/ IsNaN(b) THEN NaN
    ELSE Rat(a[1] * b[2] + b[1] * a[2], a[2] * b[2])

RNeg(a) == IF IsNaN(a) THEN NaN ELSE <<-a[1], a[2]>>

RSub(a, b) == RAdd(a, RNeg(b))

RMul(a, b) ==
    IF IsNaN(a) \/ IsNaN(b) THEN NaN
    ELSE Rat(a[1] * b[1], a[2] * b[2])

\* a / b for b # 0
RDiv(a, b) ==
    IF IsNaN(a) \/ IsNaN(b) THEN NaN
    ELSE Rat(a[1] * b[2], a[2] * b[1])

RAbs(a) == IF IsNaN(a) THEN NaN ELSE <<Abs(a[1]), a[2]>>

\* a > b; every comparison with NaN is False
RGt(a, b) ==
    /\ ~IsNaN(a)
    /\ ~IsNaN(b)
    /\ a[1] * b[2] > b[1] * a[2]

RLe(a, b) ==
    /\ ~IsNaN(a)
    /\ ~IsNaN(b)
    /\ a[1] * b[2] <= b[1] * a[2]

\* f itself (f @@ <<>> = f), as an array held in memory: the elements are
\* computed once, not at every use
Array(f) == f @@ <<>>

(***************************************************************************)
(* numpy reductions.                                                       *)
(***************************************************************************)
\* the values of a sequence that are not NaN, in order
RECURSIVE DropNaN(_)
DropNaN(s) ==
    IF s = <<>> THEN <<>>
    ELSE IF IsNaN(Head(s)) THEN DropNaN(Tail(s))
    ELSE <<Head(s)>> \o DropNaN(Tail(s))

\* the median of a sequence without NaN: the middle value of the sorted
\* sequence, or the mean of the two middle values; NaN for no values
MedianOfSorted(s) ==
    LET n == Len(s)
    IN  IF n = 0 THEN NaN
        ELSE IF n % 2 = 1 THEN s[(n + 1) \div 2]
        ELSE RDiv(RAdd(s[n \div 2], s[(n \div 2) + 1]), R(2))

\* np.nanmedian of the values of a sequence
nanmedian(s) == MedianOfSorted(SortSeq(DropNaN(s), LAMBDA a, b : RLe(a, b) /\ a # b))

\* np.median of the values of a sequence: NaN when a value is NaN
median(s) ==
    IF \E k \in 1 .. Len(s) : IsNaN(s[k]) THEN NaN ELSE nanmedian(s)

RECURSIVE SumSeq(_)
SumSeq(s) == IF s = <<>> THEN Zero ELSE RAdd(Head(s), SumSeq(Tail(s)))

RECURSIVE SumInt(_)
SumInt(s) == IF s = <<>> THEN 0 ELSE Head(s) + SumInt(Tail(s))

\* the rows 0, 2, 4, ... (x[::2]) and 1, 3, 5, ... (x[1::2]) of a frame
EvenRows == {r \in Rows : r % 2 = 0}
OddRows == {r \in Rows : r % 2 = 1}

\* the elements of a set of indices, as an ascending sequence
RECURSIVE SeqOf(_)
SeqOf(S) ==
    IF S = {} THEN <<>>
    ELSE LET m == CHOOSE x \in S : \A y \in S : x <= y
         IN  <<m>> \o SeqOf(S \ {m})

\* the values f[r][c] for r in RS and c in CS, as a sequence (row-major)
Flat(f, RS, CS) ==
    LET rs == SeqOf(RS)
        cs == SeqOf(CS)
        nc == Len(cs)
    IN  Array([k \in 1 .. (Len(rs) * nc) |->
            f[rs[((k - 1) \div nc) + 1]][cs[((k - 1) % nc) + 1]]])

\* nan_data = np.copy(data); nan_data[mask == 0] = np.nan
NanData(data, mask) ==
    Array([r \in Rows |->
        Array([c \in Cols |-> IF mask[r][c] = 0 THEN NaN ELSE data[r][c]])])

\* the values of column c of a frame, top to bottom
Column(f, c) == Array([k \in 1 .. NRows |-> f[k - 1][c]])

\* np.nanmedian(f, axis = 0)
ColumnNanMedians(f) == Array([c \in Cols |-> nanmedian(Column(f, c))])

\* the factor 1.4826 that turns a median absolute deviation into a sigma
MadScale == Rat(7413, 5000)

(***************************************************************************)
(* cc_uniluminated_outliers(data, mask, nsigma)                            *)
(***************************************************************************)
\* column_mads = np.nanmedian(np.abs(nan_data - column_medians), axis = 0)
ColumnMads(nan_data, column_medians) ==
    Array([c \in Cols |->
        nanmedian(Array([k \in 1 .. NRows |->
                      RAbs(RSub(nan_data[k - 1][c], column_medians[c]))]))])

\* new_mask: 0 where np.abs(data - column_medians) > nsigma * column_mads * 1.4826
OutlierMask(data, column_medians, column_mads, nsigma) ==
    Array([r \in Rows |-> Array([c \in Cols |->
        IF RGt(RAbs(RSub(data[r][c], column_medians[c])),
               RMul(RMul(R(nsigma), column_mads[c]), MadScale))
        THEN 0 ELSE 1])])

\* CombineMasks with the bug "return new_mask"
CombineMasks_NewMaskOnly(mask, new_mask) == new_mask

\* return mask * new_mask
CombineMasks(mask, new_mask) ==
    Array([r \in Rows |-> Array([c \in Cols |-> mask[r][c] * new_mask[r][c]])])

cc_uniluminated_outliers(data, mask, nsigma) ==
    LET nan_data == NanData(data, mask)
        column_medians == ColumnNanMedians(nan_data)
        column_mads == ColumnMads(nan_data, column_medians)
        new_mask == OutlierMask(data, column_medians, column_mads, nsigma)
    IN  CombineMasks(mask, new_mask)

(***************************************************************************)
(* get_roeba(data, mask)                                                   *)
(***************************************************************************)
\* np.nanmedian(nan_data[::2, :]) and np.nanmedian(nan_data[1::2, :])
ParityNanMedian(nan_data, RS) ==
    nanmedian(Flat(nan_data, RS, Cols))

\* RoebaModel with the bug that the column medians are added to the rows
\* [::2] only
RoebaModel_ColumnsOnEvenRows(even_level, odd_level, column_medians) ==
    Array([r \in Rows |-> Array([c \in Cols |->
        IF r % 2 = 0 THEN RAdd(even_level, column_medians[c]) ELSE odd_level])])

\* roeba[::2, :] = even median; roeba[1::2, :] = odd median;
\* roeba += np.nanmedian(nan_data, axis = 0)
RoebaModel(even_level, odd_level, column_medians) ==
    Array([r \in Rows |-> Array([c \in Cols |->
        RAdd(IF r % 2 = 0 THEN even_level ELSE odd_level, column_medians[c])])])

get_roeba(data, mask) ==
    LET nan_data == NanData(data, mask)
    IN  RoebaModel(ParityNanMedian(nan_data, EvenRows),
                   ParityNanMedian(nan_data, OddRows),
                   ColumnNanMedians(nan_data))

\* data[i, j, :, :] -= model
SubtractModel(data, model) ==
    Array([r \in Rows |-> Array([c \in Cols |-> RSub(data[r][c], model[r][c])])])

(***************************************************************************)
(* scipy.sparse.linalg.lsmr(A, b)[0]: the least-squares solution of        *)
(* A x = b of minimum Euclidean norm.  The iteration starts from x = 0 and *)
(* stays in the range of A^T, so that it converges to that solution also   *)
(* for a singular A.  It is computed here exactly: the normal equations    *)
(* A^T A x = A^T b are reduced by Gauss-Jordan elimination, and the        *)
(* component in the null space is removed from one solution.               *)
(***************************************************************************)
Dot(u, v, n) == SumSeq(Array([k \in 1 .. n |-> RMul(u[k - 1], v[k - 1])]))

\* A x for an n x n matrix
MatVec(A, x, n) == Array([i \in 0 .. (n - 1) |-> Dot(A[i], x, n)])

Transpose(A, n) ==
    Array([i \in 0 .. (n - 1) |-> Array([j \in 0 .. (n - 1) |-> A[j][i]])])

\* Gauss-Jordan elimination of the nr x (nc + 1) matrix M (nc coefficient
\* columns and a right-hand side), from row r and column c on; piv is the
\* sequence of the pivot columns found so far, one per reduced row
RECURSIVE Reduce(_, _, _, _, _, _)
Reduce(M, nr, nc, r, c, piv) ==
    IF c = nc \/ r = nr THEN [M |-> M, piv |-> piv]
    ELSE LET cand == {i \in r .. (nr - 1) : M[i][c] # Zero}
         IN  IF cand = {} THEN Reduce(M, nr, nc, r, c + 1, piv)
             ELSE LET p == CHOOSE i \in cand : \A k \in cand : i <= k
                      sw == Array([i \in 0 .. (nr - 1) |->
                                IF i = r THEN M[p] ELSE IF i = p THEN M[r] ELSE M[i]])
                      pr == Array([j \in 0 .. nc |-> RDiv(sw[r][j], sw[r][c])])
                      el == Array([i \in 0 .. (nr - 1) |->
                                IF i = r THEN pr
                                ELSE Array([j \in 0 .. nc |->
                                         RSub(sw[i][j], RMul(sw[i][c], pr[j]))])])
                  IN  Reduce(el, nr, nc, r + 1, c + 1, Append(piv, c))

\* the minimum-norm solution of the consistent system N x = g (n unknowns)
RECURSIVE MinNormSolve(_, _, _)
MinNormSolve(N, g, n) ==
    LET aug == Array([i \in 0 .. (n - 1) |->
                   Array([j \in 0 .. n |-> IF j = n THEN g[i] ELSE N[i][j]])])
        red == Reduce(aug, n, n, 0, 0, <<>>)
        piv == red.piv
        rank == Len(piv)
        pivots == {piv[k] : k \in 1 .. rank}
        free == SeqOf((0 .. (n - 1)) \ pivots)
        nf == Len(free)
        RowOf(j) == CHOOSE k \in 1 .. rank : piv[k] = j
        \* one solution: the free unknowns are 0
        xp == Array([j \in 0 .. (n - 1) |->
                  IF j \in pivots THEN red.M[RowOf(j) - 1][n] ELSE Zero])
        \* a basis of the null space, one vector per free unknown
        K == Array([f \in 1 .. nf |-> Array([j \in 0 .. (n - 1) |->
                  IF j = free[f] THEN R(1)
                  ELSE IF j \in pivots THEN RNeg(red.M[RowOf(j) - 1][free[f]])
                  ELSE Zero])])
        \* the coordinates of the projection of xp on the null space
        G == Array([f \in 0 .. (nf - 1) |->
                 Array([h \in 0 .. (nf - 1) |-> Dot(K[f + 1], K[h + 1], n)])])
        t == Array([f \in 0 .. (nf - 1) |-> Dot(K[f + 1], xp, n)])
        cf == MinNormSolve(G, t, nf)
    IN  IF nf = 0 THEN xp
        ELSE Array([j \in 0 .. (n - 1) |->
                 RSub(xp[j], SumSeq(Array([f \in 1 .. nf |-> RMul(cf[f - 1], K[f][j])])))])

lsmr(A, b, n) ==
    LET At == Transpose(A, n)
        N == Array([i \in 0 .. (n - 1) |-> MatVec(At, At[i], n)])
    IN  IF \A i \in 0 .. (n - 1) : b[i] = Zero
        THEN Array([i \in 0 .. (n - 1) |-> Zero])
        ELSE MinNormSolve(N, MatVec(At, b, n), n)

(***************************************************************************)
(* get_loom(data, mask, return_parameters)                                 *)
(***************************************************************************)
\* the number of parameters [O, E, a_0, ..., a_(ncolumns - 1)]
NPar == NCols + 2

\* np.sum(mask[RS, c]): the number of pixels of column c used on the rows RS
CountCol(mask, RS, c) == SumInt(Flat(mask, RS, {c}))

\* np.sum(ncols_i[RS]): the number of pixels used on the rows RS
CountRows(mask, RS) == SumInt(Flat(mask, RS, Cols))

\* MaskedSum with the bug that the mask is left out: np.sum(data[RS, CS])
MaskedSum_Unmasked(data, mask, RS, CS) ==
    SumSeq(Flat(data, RS, CS))

\* np.sum(mask[RS, CS] * data[RS, CS])
MaskedSum(data, mask, RS, CS) ==
    SumSeq(Flat(Array([r \in Rows |->
                    Array([c \in Cols |-> RMul(R(mask[r][c]), data[r][c])])]),
                RS, CS))

\* LoomA with the bug that A[j + 2, j + 2] is nrows, not nrows_j[j]
LoomA_UnmaskedDiagonal(mask) ==
    LET neven_j == Array([c \in Cols |-> CountCol(mask, EvenRows, c)])
        nodd_j == Array([c \in Cols |-> CountCol(mask, OddRows, c)])
        nE == CountRows(mask, EvenRows)
        nO == CountRows(mask, OddRows)
    IN  Array([i \in 0 .. (NPar - 1) |-> Array([k \in 0 .. (NPar - 1) |->
            IF i = 0 THEN (IF k = 0 THEN R(nO)
                           ELSE IF k = 1 THEN Zero
                           ELSE R(nodd_j[k - 2]))
            ELSE IF i = 1 THEN (IF k = 0 THEN Zero
                                ELSE IF k = 1 THEN R(nE)
                                ELSE R(neven_j[k - 2]))
            ELSE IF k = 0 THEN R(nodd_j[i - 2])
            ELSE IF k = 1 THEN R(neven_j[i - 2])
            ELSE IF k = i THEN R(NRows)
            ELSE Zero])])

\* the A matrix: row 0 is the equation of the O partial derivative, row 1
\* that of E, row j + 2 that of a_j
LoomA(mask) ==
    LET nrows_j == Array([c \in Cols |-> CountCol(mask, Rows, c)])
        neven_j == Array([c \in Cols |-> CountCol(mask, EvenRows, c)])
        nodd_j == Array([c \in Cols |-> CountCol(mask, OddRows, c)])
        nE == CountRows(mask, EvenRows)
        nO == CountRows(mask, OddRows)
    IN  Array([i \in 0 .. (NPar - 1) |-> Array([k \in 0 .. (NPar - 1) |->
            IF i = 0 THEN (IF k = 0 THEN R(nO)
                           ELSE IF k = 1 THEN Zero
                           ELSE R(nodd_j[k - 2]))
            ELSE IF i = 1 THEN (IF k = 0 THEN Zero
                                ELSE IF k = 1 THEN R(nE)
                                ELSE R(neven_j[k - 2]))
            ELSE IF k = 0 THEN R(nodd_j[i - 2])
            ELSE IF k = 1 THEN R(neven_j[i - 2])
            ELSE IF k = i THEN R(nrows_j[i - 2])
            ELSE Zero])])

\* Loomb with the bug that b[0] sums the rows [::2] and b[1] the rows [1::2]
Loomb_SwappedParity(data, mask) ==
    Array([i \in 0 .. (NPar - 1) |->
        IF i = 0 THEN MaskedSum(data, mask, EvenRows, Cols)
        ELSE IF i = 1 THEN MaskedSum(data, mask, OddRows, Cols)
        ELSE MaskedSum(data, mask, Rows, {i - 2})])

\* the b vector
Loomb(data, mask) ==
    Array([i \in 0 .. (NPar - 1) |->
        IF i = 0 THEN MaskedSum(data, mask, OddRows, Cols)
        ELSE IF i = 1 THEN MaskedSum(data, mask, EvenRows, Cols)
        ELSE MaskedSum(data, mask, Rows, {i - 2})])

\* LoomModel with the bug that x[0] goes to the rows [::2] and x[1] to [1::2]
LoomModel_SwappedParity(x) ==
    Array([r \in Rows |-> Array([c \in Cols |->
        RAdd(IF r % 2 = 0 THEN x[0] ELSE x[1], x[c + 2])])])

\* loom[1::2, :] += x[0]; loom[::2, :] += x[1]; loom[:, j] += x[j + 2]
LoomModel(x) ==
    Array([r \in Rows |-> Array([c \in Cols |->
        RAdd(IF r % 2 = 1 THEN x[0] ELSE x[1], x[c + 2])])])

\* the locals of get_loom at its return: A, b, the solution x and the model
get_loom(data, mask) ==
    LET A == LoomA(mask)
        b == Loomb(data, mask)
        x == lsmr(A, b, NPar)
    IN  [A |-> A, b |-> b, x |-> x, loom |-> LoomModel(x)]

(***************************************************************************)
(* get_last_minus_first(data, min_group, max_group)                        *)
(***************************************************************************)
\* data[i, g, :, :] raises IndexError unless -ngroups <= g < ngroups
ValidIndex(g) == -NGroups <= g /\ g < NGroups

\* the group that the index g selects: a negative index counts from the end
GroupAt(g) == IF g < 0 THEN g + NGroups ELSE g

\* frame - np.nanmedian(frame)
RemoveMedian(frame) ==
    LET med == nanmedian(Flat(frame, Rows, Cols))
    IN  Array([r \in Rows |-> Array([c \in Cols |-> RSub(frame[r][c], med)])])

\* LastMinusFirst with the bug that the median of first_group is not removed
LastMinusFirst_FirstNotCentred(data, i, min_group, max_group) ==
    LET last_group == RemoveMedian(data[i][GroupAt(max_group)])
        first_group == data[i][GroupAt(min_group)]
    IN  SubtractModel(last_group, first_group)

\* lmf[i, :, :] = last_group - first_group, each with its median removed
LastMinusFirst(data, i, min_group, max_group) ==
    LET last_group == RemoveMedian(data[i][GroupAt(max_group)])
        first_group == RemoveMedian(data[i][GroupAt(min_group)])
    IN  SubtractModel(last_group, first_group)

\* np.nanmedian(lmf, axis = 0)
MedianLmf(lmf) ==
    Array([r \in Rows |-> Array([c \in Cols |->
        nanmedian(Array([k \in 1 .. NInts |-> lmf[k - 1][r][c]]))])])

\* the outcome of the call: an IndexError, or lmf and median_lmf
get_last_minus_first(data, min_group, max_group) ==
    IF ~(ValidIndex(max_group) /\ ValidIndex(min_group))
    THEN [err |-> "IndexError"]
    ELSE LET lmf == Array([i \in Ints |-> LastMinusFirst(data, i, min_group, max_group)])
         IN  [err |-> "none", lmf |-> lmf, median_lmf |-> MedianLmf(lmf)]

(***************************************************************************)
(* get_uniluminated_mask(data, nsigma)                                     *)
(***************************************************************************)
\* sigma of column i: mad * 1.4826 of the residuals data[:, i] - cc[i]
ColumnSigma(data, cc, i) ==
    LET column_residuals == Array([k \in 1 .. NRows |-> RSub(data[k - 1][i], cc[i])])
        center == nanmedian(column_residuals)
        mad == nanmedian(Array([k \in 1 .. NRows |->
                   RAbs(RSub(column_residuals[k], center))]))
    IN  RMul(mad, MadScale)

\* get_uniluminated_mask with the bug that the test is two-sided:
\* np.abs(data[:, i] - cc[i]) > nsigma * sigma
get_uniluminated_mask_TwoSided(data, nsigma) ==
    LET cc == Array([c \in Cols |-> median(Column(data, c))])
        sigma == Array([c \in Cols |-> ColumnSigma(data, cc, c)])
    IN  Array([r \in Rows |-> Array([c \in Cols |->
            IF RGt(RAbs(RSub(data[r][c], cc[c])), RMul(R(nsigma), sigma[c]))
            THEN 0 ELSE 1])])

get_uniluminated_mask(data, nsigma) ==
    LET cc == Array([c \in Cols |-> median(Column(data, c))])
        sigma == Array([c \in Cols |-> ColumnSigma(data, cc, c)])
    IN  Array([r \in Rows |-> Array([c \in Cols |->
            IF RGt(data[r][c], RAdd(cc[c], RMul(R(nsigma), sigma[c])))
            THEN 0 ELSE 1])])

(***************************************************************************)
(* State.                                                                  *)
(*                                                                         *)
(* Two specifications share the variables.  Spec applies the functions of  *)
(* the module to one frame and one mask; SpecStage1 is the loom/roeba      *)
(* correction of a ramp in stage1.                                         *)
(***************************************************************************)
VARIABLES
    data,               \* the frame handed to the functions
    mask,               \* the mask of uniluminated pixels (1: use the pixel)
    method,             \* preamp_correction: "roeba" or "loom" ("none": not yet chosen)
    pc,                 \* the position of the caller
    group_mask,         \* the mask returned by cc_uniluminated_outliers
    model,              \* the model returned by get_roeba or get_loom
    sys,                \* A, b and x of the last get_loom
    npass,              \* the number of models subtracted from data
    ramp,               \* output_dictionary['superbias'].data
    kwargs,             \* the keyword arguments min_group and max_group of stage1
    uniluminated_mask,  \* the argument uniluminated_mask of stage1 (None: <<>>)
    refpix,             \* refpix.data, the copy that is corrected
    lmf,                \* lmf, median_lmf of the uncorrected ramp
    lmf_after,          \* the last-minus-first of the corrected ramp
    i,                  \* the integration of the correction loop
    j,                  \* the group of the correction loop
    product,            \* the data of the saved refpix product (<<>>: no file)
    err,                \* the exception that ended the call ("none": it returned)
    median_lmf,         \* median_lmf of the uncorrected ramp
    skip_steps,         \* the argument skip_steps of stage1
    output_dictionary,  \* output_dictionary of stage1
    files               \* the step products found in the output folder

vars == <<data, mask, method, pc, group_mask, model, sys, npass, ramp, kwargs,
          uniluminated_mask, refpix, lmf, lmf_after, i, j, product, err,
          median_lmf, skip_steps, output_dictionary, files>>

stage1Vars ==
    <<ramp, kwargs, uniluminated_mask, refpix, lmf, lmf_after, i, j, product, median_lmf>>

pipelineVars == <<skip_steps, output_dictionary, files>>

None == <<>>

\* the default nsigma of cc_uniluminated_outliers
CcNsigma == 5
\* the default nsigma of get_uniluminated_mask
MaskNsigma == 3

\* the values of nsigma a caller passes
NSigmas == {0, 1, CcNsigma}

\* the frames of raw pixel values
Frames == [Rows -> [Cols -> {R(v) : v \in 0 .. MaxVal}]]

\* the masks
Masks == [Rows -> [Cols -> {0, 1}]]

\* np.ones(data.shape) as a mask
Ones == [r \in Rows |-> [c \in Cols |-> 1]]

\* the noise-free frame with level odd on the rows 1, 3, ..., level even on the
\* rows 0, 2, ... and level col[c] added on column c
Pattern(odd, even, col) ==
    [r \in Rows |-> [c \in Cols |-> R((IF r % 2 = 1 THEN odd ELSE even) + col[c])]]

PatternFrames ==
    {Pattern(odd, even, col) :
        odd \in 0 .. MaxLevel, even \in 0 .. MaxLevel, col \in [Cols -> 0 .. MaxLevel]}

\* the values of a flat frame: a median last-minus-first frame has both signs
FlatValues == (-MaxVal) .. MaxVal

\* the frame that is v at every pixel but (r0, c0), which holds 100 times v
SpikeFrame(v, r0, c0) ==
    [r \in Rows |-> [c \in Cols |-> IF r = r0 /\ c = c0 THEN R(100 * v) ELSE R(v)]]

SpikeFrames == {SpikeFrame(v, r0, c0) : v \in FlatValues, r0 \in Rows, c0 \in Cols}

(***************************************************************************)
(* Spec: the functions applied to a frame and a mask.                      *)
(***************************************************************************)
Init ==
    /\ \/ data \in Frames /\ mask \in Masks
       \/ data \in PatternFrames /\ mask = Ones
       \/ data \in SpikeFrames /\ mask = Ones
    /\ method = "none"
    /\ pc = "start"
    /\ group_mask = None
    /\ model = None
    /\ sys = None
    /\ npass = 0
    /\ ramp = None
    /\ kwargs = None
    /\ uniluminated_mask = None
    /\ refpix = None
    /\ lmf = None
    /\ lmf_after = None
    /\ i = 0
    /\ j = 0
    /\ product = None
    /\ err = "none"
    /\ median_lmf = None
    /\ skip_steps = None
    /\ output_dictionary = None
    /\ files = None

\* group_mask = cc_uniluminated_outliers(data, mask, nsigma)
Refine(nsigma) ==
    /\ pc = "start"
    /\ group_mask' = cc_uniluminated_outliers(data, mask, nsigma)
    /\ pc' = "refined"
    /\ UNCHANGED <<data, mask, method, model, sys, npass>>
    /\ UNCHANGED stage1Vars
    /\ UNCHANGED pipelineVars
    /\ UNCHANGED err

\* mask = get_uniluminated_mask(data)
EstimateMask ==
    /\ pc = "start"
    /\ mask' = get_uniluminated_mask(data, MaskNsigma)
    /\ pc' = "estimated"
    /\ UNCHANGED <<data, method, group_mask, model, sys, npass>>
    /\ UNCHANGED stage1Vars
    /\ UNCHANGED pipelineVars
    /\ UNCHANGED err

\* model = get_roeba(data, mask)
BuildRoeba ==
    /\ pc = "start"
    /\ method \in {"none", "roeba"}
    /\ model' = get_roeba(data, mask)
    /\ method' = "roeba"
    /\ pc' = "built"
    /\ UNCHANGED <<data, mask, group_mask, sys, npass>>
    /\ UNCHANGED stage1Vars
    /\ UNCHANGED pipelineVars
    /\ UNCHANGED err

\* model, x = get_loom(data, mask, return_parameters = True)
BuildLoom ==
    /\ pc = "start"
    /\ method \in {"none", "loom"}
    /\ sys' = get_loom(data, mask)
    /\ model' = sys'.loom
    /\ method' = "loom"
    /\ pc' = "built"
    /\ UNCHANGED <<data, mask, group_mask, npass>>
    /\ UNCHANGED stage1Vars
    /\ UNCHANGED pipelineVars
    /\ UNCHANGED err

\* data -= model: the frame is corrected, and is handed to the functions again
Correct ==
    /\ pc = "built"
    /\ npass < MaxPasses
    /\ data' = SubtractModel(data, model)
    /\ npass' = npass + 1
    /\ pc' = "start"
    /\ model' = None
    /\ sys' = None
    /\ UNCHANGED <<mask, method, group_mask>>
    /\ UNCHANGED stage1Vars
    /\ UNCHANGED pipelineVars
    /\ UNCHANGED err

Next ==
    \/ \E nsigma \in NSigmas : Refine(nsigma)
    \/ EstimateMask
    \/ BuildRoeba
    \/ BuildLoom
    \/ Correct

Spec == Init /\ [][Next]_vars

(***************************************************************************)
(* Properties of Spec.                                                     *)
(***************************************************************************)
\* column c of the mask has no 1
EmptyColumn(m, c) == \A r \in Rows : m[r][c] = 0

\* every column of the mask has a 1
ColumnsPopulated(m) == \A c \in Cols : ~EmptyColumn(m, c)

\* the rows RS of the mask have a 1
RowsPopulated(m, RS) == \E r \in RS : \E c \in Cols : m[r][c] = 1

AllZero(f) == \A r \in Rows : \A c \in Cols : f[r][c] = Zero

\* the rank of an n x n matrix
Rank(A, n) ==
    Len(Reduce(Array([r \in 0 .. (n - 1) |->
                   Array([c \in 0 .. n |-> IF c = n THEN Zero ELSE A[r][c]])]),
               n, n, 0, 0, <<>>).piv)

\* the parameter vector [O, E, a_0, ...] = [odd, even, col] after O += k,
\* E += k, a_j -= k
ShiftedParameters(odd, even, col, k) ==
    Array([p \in 0 .. (NPar - 1) |->
        IF p = 0 THEN RAdd(R(odd), k)
        ELSE IF p = 1 THEN RAdd(R(even), k)
        ELSE RSub(R(col[p - 2]), k)])

\* the shifts k tried
MaxShift == 3

\* C1: the mask returned by cc_uniluminated_outliers holds only 0 and 1, and
\* is 0 wherever the input mask is 0, for every frame, mask and nsigma.
C1_RefinedMaskIsSubset ==
    pc = "refined" =>
        \A r \in Rows : \A c \in Cols :
            /\ group_mask[r][c] \in {0, 1}
            /\ group_mask[r][c] <= mask[r][c]

\* a refined mask that lost a pixel of a mask that excludes other pixels
C1_Witness ==
    /\ pc = "refined"
    /\ \E r \in Rows : \E c \in Cols : mask[r][c] = 1 /\ group_mask[r][c] = 0
    /\ \E r \in Rows : \E c \in Cols : mask[r][c] = 0

\* C2: for a noise-free frame parity_level(row) + column_level(col) under the
\* all-ones mask, the solutions of the system of get_loom are exactly the
\* vectors [odd, even, col] shifted by O += k, E += k, a_j -= k: each of
\* them solves A x = b and reconstructs the frame, the null space of A has
\* dimension 1 (the shift), and the solution returned is one of them.
C2_PatternSolutions ==
    (pc = "built" /\ method = "loom" /\ npass = 0 /\ mask = Ones) =>
        \A odd \in 0 .. MaxLevel : \A even \in 0 .. MaxLevel :
            \A col \in [Cols -> 0 .. MaxLevel] :
                data = Pattern(odd, even, col) =>
                    /\ \A k \in (-MaxShift) .. MaxShift :
                          LET x == ShiftedParameters(odd, even, col, R(k))
                          IN  /\ MatVec(sys.A, x, NPar) = sys.b
                              /\ LoomModel(x) = data
                    /\ Rank(sys.A, NPar) = NPar - 1
                    /\ sys.x = ShiftedParameters(odd, even, col,
                                                 RSub(sys.x[0], R(odd)))
                    /\ model = data

\* the frame with odd level 5, even level 2 and the column ramp 0, 1, ...
C2_Witness ==
    /\ pc = "built"
    /\ method = "loom"
    /\ npass = 0
    /\ mask = Ones
    /\ data = Pattern(5, 2, [c \in Cols |-> c])
    /\ model = data

\* C3: for a noise-free frame under the all-ones mask the model of get_roeba
\* is the frame (the model of the parameters [odd, even, col]).
C3_RoebaRecoversPattern ==
    (pc = "built" /\ method = "roeba" /\ npass = 0 /\ mask = Ones
        /\ data \in PatternFrames) => model = data

\* C4: with a mask that has a 1 in every column, a solution x of the system
\* is found, and after its model is subtracted the system of the residual
\* frame has b = 0 and the refit parameters are 0.
C4_LoomFixedPoint ==
    (pc = "built" /\ method = "loom" /\ ColumnsPopulated(mask)) =>
        /\ MatVec(sys.A, sys.x, NPar) = sys.b
        /\ npass >= 1 =>
              /\ \A p \in 0 .. (NPar - 1) : sys.b[p] = Zero
              /\ \A p \in 0 .. (NPar - 1) : sys.x[p] = Zero
              /\ AllZero(model)

\* a refit of a residual frame that is not zero, under a mask with zeros
C4_Witness ==
    /\ pc = "built"
    /\ method = "loom"
    /\ npass = 1
    /\ ColumnsPopulated(mask)
    /\ mask # Ones
    /\ \E r \in Rows : \E c \in Cols : mask[r][c] = 1 /\ data[r][c] # Zero

\* C5: the model that get_roeba builds for a frame already corrected with
\* the same mask (a 1 in every column and in each row parity) is zero.
C5_RoebaIdempotent ==
    (pc = "built" /\ method = "roeba" /\ npass >= 1 /\ ColumnsPopulated(mask)
        /\ RowsPopulated(mask, EvenRows) /\ RowsPopulated(mask, OddRows))
    => AllZero(model)

\* C7: with an empty column in a mask that has 1s elsewhere,
\* cc_uniluminated_outliers does not return normally, and get_roeba does not
\* return a number for that column.
C7_EmptyColumnSurfaced ==
    \A c \in Cols :
        (EmptyColumn(mask, c) /\ mask # [r \in Rows |-> [k \in Cols |-> 0]]) =>
            /\ pc = "refined" => err # "none"
            /\ (pc = "built" /\ method = "roeba") =>
                  (err # "none" \/ \A r \in Rows : IsNaN(model[r][c]))

\* C8: for a column j of the mask without a 1, row j + 2 and column j + 2 of A
\* are zero, b[j + 2] is zero, get_loom returns, and a_j = x[j + 2] is 0.
C8_EmptyColumnLoom ==
    (pc = "built" /\ method = "loom") =>
        \A c \in Cols :
            EmptyColumn(mask, c) =>
                /\ \A p \in 0 .. (NPar - 1) :
                      sys.A[c + 2][p] = Zero /\ sys.A[p][c + 2] = Zero
                /\ sys.b[c + 2] = Zero
                /\ err = "none"
                /\ sys.x[c + 2] = Zero

\* a fit with an empty column, other columns in use and a model that is not 0
C8_Witness ==
    /\ pc = "built"
    /\ method = "loom"
    /\ \E c \in Cols : EmptyColumn(mask, c)
    /\ \E c \in Cols : ~EmptyColumn(mask, c)
    /\ \E p \in 0 .. (NPar - 1) : sys.x[p] # Zero

\* C10: get_roeba and get_loom called with a mask without a 1 end in an error.
C10_DegenerateMaskIsFatal ==
    (pc = "built" /\ mask = [r \in Rows |-> [c \in Cols |-> 0]]) => err # "none"

\* the mask that is 0 at pixel (r0, c0) and 1 elsewhere
OnesBut(r0, c0) ==
    [r \in Rows |-> [c \in Cols |-> IF r = r0 /\ c = c0 THEN 0 ELSE 1]]

Design(r, c, p) ==
    IF p = 0 THEN (IF r % 2 = 1 THEN 1 ELSE 0)
    ELSE IF p = 1 THEN (IF r % 2 = 0 THEN 1 ELSE 0)
    ELSE IF p - 2 = c THEN 1 ELSE 0

\* D^T W D with W = diag(mask)
NormalMatrix(m) ==
    [p \in 0 .. (NPar - 1) |-> [q \in 0 .. (NPar - 1) |->
        SumSeq(Flat([r \in Rows |-> [c \in Cols |->
                        R(Design(r, c, p) * m[r][c] * Design(r, c, q))]],
                    Rows, Cols))]]

\* D^T W y with W = diag(mask) and y the pixels of the frame
NormalVector(y, m) ==
    [p \in 0 .. (NPar - 1) |->
        SumSeq(Flat([r \in Rows |-> [c \in Cols |->
                        RMul(R(Design(r, c, p) * m[r][c]), y[r][c])]],
                    Rows, Cols))]

\* C17: the A and b that get_loom fills from the counts and sums are the
\* weighted normal equations D^T W D and D^T W y of the dense design matrix
\* with weight = mask, and A is symmetric.
C17_LoomIsNormalEquations ==
    (pc = "built" /\ method = "loom") =>
        /\ sys.A = NormalMatrix(mask)
        /\ sys.b = NormalVector(data, mask)
        /\ \A p, q \in 0 .. (NPar - 1) : sys.A[p][q] = sys.A[q][p]

\* a system built under a mask with zeros in both row parities, for a frame
\* with a pixel that is not used and not zero
C17_Witness ==
    /\ pc = "built"
    /\ method = "loom"
    /\ \E r \in OddRows : \E c \in Cols : mask[r][c] = 0 /\ data[r][c] # Zero
    /\ \E r \in EvenRows : \E c \in Cols : mask[r][c] = 0
    /\ \E p \in 0 .. (NPar - 1) : sys.b[p] # Zero

\* C11: for a frame that is v > 0 at every pixel but one, which holds 100 v,
\* get_uniluminated_mask with the default nsigma returns 0 at that pixel and
\* 1 at every other pixel; for v <= 0 the pixel at 100 v is not above the
\* others, and the one-sided test flags no pixel.
C11_SpikeFlagged ==
    pc = "estimated" =>
        \A v \in FlatValues : \A r0 \in Rows : \A c0 \in Cols :
            data = SpikeFrame(v, r0, c0) =>
                mask = IF v > 0 THEN OnesBut(r0, c0) ELSE Ones

\* the pixel at 200 in the frame of value 2 is flagged
C11_Witness ==
    /\ pc = "estimated"
    /\ NRows > 1 /\ NCols > 1
    /\ data = SpikeFrame(MaxVal, 1, 1)
    /\ mask = OnesBut(1, 1)

\* C11 as stated: the pixel at 100 v is flagged for every flat value v # 0
C11_SpikeFlaggedAnyValue ==
    pc = "estimated" =>
        \A v \in FlatValues \ {0} : \A r0 \in Rows : \A c0 \in Cols :
            data = SpikeFrame(v, r0, c0) => mask = OnesBut(r0, c0)

(***************************************************************************)
(* SpecStage1: the loom/roeba correction of a ramp in stage1.              *)
(***************************************************************************)
\* a ramp: odd/even offsets, a reset level that grows with the integration,
\* and a signal flux that accumulates from group to group
Ramp(odd, even, flux) ==
    [n \in Ints |-> [g \in Groups |-> [r \in Rows |-> [c \in Cols |->
        R((IF r % 2 = 1 THEN odd ELSE even) + n + (g + 1) * flux[r][c])]]]]

\* the signal: at most one illuminated pixel
Fluxes ==
    {f \in [Rows -> [Cols -> 0 .. MaxVal]] :
        \A r1, r2 \in Rows : \A c1, c2 \in Cols :
            (f[r1][c1] # 0 /\ f[r2][c2] # 0) => (r1 = r2 /\ c1 = c2)}

Ramps ==
    {Ramp(odd, even, flux) : odd \in 0 .. MaxVal, even \in 0 .. MaxVal, flux \in Fluxes}

\* the group indices a caller passes: those of the ramp, and one beyond
GroupArgs == 0 .. NGroups

\* the keyword arguments: none, or min_group and max_group
KwargsSets ==
    {None} \cup [{"min_group", "max_group"} -> GroupArgs]

\* the masks a caller passes: all ones, one pixel excluded, or one column
\* excluded
UserMasks ==
    {m \in Masks :
        \/ \E r0 \in Rows : \E c0 \in Cols :
              \A r \in Rows : \A c \in Cols : m[r][c] = 0 => (r = r0 /\ c = c0)
        \/ \E c0 \in Cols :
              \A r \in Rows : \A c \in Cols : m[r][c] = 0 <=> c = c0}

InitStage1 ==
    /\ ramp \in Ramps
    /\ kwargs \in KwargsSets
    /\ uniluminated_mask \in {None} \cup UserMasks
    /\ method \in {"roeba", "loom"}
    /\ pc = "lmf"
    /\ mask = None
    /\ group_mask = None
    /\ refpix = None
    /\ lmf = None
    /\ lmf_after = None
    /\ i = 0
    /\ j = 0
    /\ product = None
    /\ err = "none"
    /\ median_lmf = None
    /\ skip_steps = None
    /\ output_dictionary = None
    /\ files = None
    /\ data = None
    /\ model = None
    /\ sys = None
    /\ npass = 0

\* min_group, max_group = 0, ngroups - 1, unless given in kwargs
MinGroup == IF "min_group" \in DOMAIN kwargs THEN kwargs["min_group"] ELSE 0

MaxGroup == IF "max_group" \in DOMAIN kwargs THEN kwargs["max_group"] ELSE NGroups - 1

\* np.zeros(lmf.shape)
ZeroLmf == [n \in Ints |-> [r \in Rows |-> [c \in Cols |-> Zero]]]

\* the last-minus-first frames and the mask; refpix is a copy of the ramp
Prepare ==
    /\ pc = "lmf"
    /\ LET res == get_last_minus_first(ramp, MinGroup, MaxGroup)
       IN  IF res.err # "none"
           THEN /\ err' = res.err
                /\ pc' = "error"
                /\ UNCHANGED <<lmf, median_lmf, mask, refpix, lmf_after>>
           ELSE /\ lmf' = res.lmf
                /\ median_lmf' = res.median_lmf
                /\ mask' = IF uniluminated_mask = None
                           THEN get_uniluminated_mask(res.median_lmf, MaskNsigma)
                           ELSE uniluminated_mask
                /\ refpix' = ramp
                /\ lmf_after' = ZeroLmf
                /\ pc' = "loop"
                /\ UNCHANGED err
    /\ UNCHANGED <<data, method, group_mask, model, sys, npass, ramp, kwargs,
                   uniluminated_mask, i, j, product>>
    /\ UNCHANGED pipelineVars

\* SuperbiasAfterWrite with the bug refpix = output_dictionary['superbias']:
\* refpix is the superbias product itself, and what is written to
\* refpix.data is written to it
SuperbiasAfterWrite_NoDeepcopy(superbias, written) == written

\* output_dictionary['superbias'].data after refpix.data is written: refpix
\* is a deepcopy of the superbias product, which is therefore not written
SuperbiasAfterWrite(superbias, written) == superbias

\* LoopFrame with the bug that the group index is 0: refpix.data[i, 0, :, :]
LoopFrame_FirstGroup(cube, n, g) == cube[n][0]

\* refpix.data[i, j, :, :], the frame handed to the model builders
LoopFrame(cube, n, g) == cube[n][g]

\* one frame of the loom loop: the mask is refined, the LOOM is subtracted
CorrectFrameLoom ==
    /\ pc = "loop"
    /\ method = "loom"
    /\ i < NInts
    /\ j < NGroups
    /\ group_mask' = cc_uniluminated_outliers(LoopFrame(refpix, i, j), mask, CcNsigma)
    /\ refpix' = [refpix EXCEPT ![i][j] =
                     SubtractModel(@, get_loom(LoopFrame(refpix, i, j),
                                               group_mask').loom)]
    /\ ramp' = SuperbiasAfterWrite(ramp, refpix')
    /\ j' = j + 1
    /\ UNCHANGED <<data, mask, method, pc, model, sys, npass, kwargs,
                   uniluminated_mask, lmf, lmf_after, i, product, err,
                   median_lmf>>
    /\ UNCHANGED pipelineVars

\* one frame of the roeba loop: the ROEBA of the base mask is subtracted
CorrectFrameRoeba ==
    /\ pc = "loop"
    /\ method = "roeba"
    /\ i < NInts
    /\ j < NGroups
    /\ refpix' = [refpix EXCEPT ![i][j] =
                     SubtractModel(@, get_roeba(LoopFrame(refpix, i, j), mask))]
    /\ ramp' = SuperbiasAfterWrite(ramp, refpix')
    /\ j' = j + 1
    /\ UNCHANGED <<data, mask, method, pc, group_mask, model, sys, npass,
                   kwargs, uniluminated_mask, lmf, lmf_after, i, product, err,
                   median_lmf>>
    /\ UNCHANGED pipelineVars

\* lmf_after[i, :, :] = refpix.data[i, max_group, :, :] - refpix.data[i, min_group, :, :]
EndIntegration ==
    /\ pc = "loop"
    /\ i < NInts
    /\ j = NGroups
    /\ lmf_after' = [lmf_after EXCEPT ![i] =
                        SubtractModel(refpix[i][GroupAt(MaxGroup)],
                                      refpix[i][GroupAt(MinGroup)])]
    /\ i' = i + 1
    /\ j' = 0
    /\ UNCHANGED <<data, mask, method, pc, group_mask, model, sys, npass, ramp,
                   kwargs, uniluminated_mask, refpix, lmf, product, err, median_lmf>>
    /\ UNCHANGED pipelineVars

\* refpix.save(output_filename)
SaveProduct ==
    /\ pc = "loop"
    /\ i = NInts
    /\ product' = refpix
    /\ pc' = "done"
    /\ UNCHANGED <<data, mask, method, group_mask, model, sys, npass, ramp,
                   kwargs, uniluminated_mask, refpix, lmf, lmf_after, i, j, err,
                   median_lmf>>
    /\ UNCHANGED pipelineVars

\* a later call with the same arguments finds the product: it is loaded, and
\* lmf_after comes from get_last_minus_first
Reload ==
    /\ pc = "done"
    /\ refpix' = product
    /\ lmf_after' = get_last_minus_first(product, MinGroup, MaxGroup).lmf
    /\ pc' = "reloaded"
    /\ UNCHANGED <<data, mask, method, group_mask, model, sys, npass, ramp,
                   kwargs, uniluminated_mask, lmf, i, j, product, err, median_lmf>>
    /\ UNCHANGED pipelineVars

NextStage1 ==
    \/ Prepare
    \/ CorrectFrameLoom
    \/ CorrectFrameRoeba
    \/ EndIntegration
    \/ SaveProduct
    \/ Reload

SpecStage1 == InitStage1 /\ [][NextStage1]_vars

(***************************************************************************)
(* Properties of SpecStage1.                                               *)
(***************************************************************************)
\* C6: the lmf_after that the correction loop stores is the last-minus-first
\* estimate (median of each group removed) of the corrected ramp, which is
\* what a call that reloads the saved product stores.
C6_SlopeAfterIsSlopeEstimate ==
    pc = "done" =>
        lmf_after = get_last_minus_first(refpix, MinGroup, MaxGroup).lmf

\* C9: get_last_minus_first called with min_group > max_group, or with a group
\* index that is not in the ramp, ends in an error and returns no estimate.
C9_InvalidGroupRangeIsFatal ==
    (pc # "lmf" /\ (MinGroup > MaxGroup \/ MinGroup \notin Groups
                        \/ MaxGroup \notin Groups))
    => (pc = "error" /\ err # "none" /\ lmf = None)

\* np.zeros of the shape of a frame
ZeroFrame == [r \in Rows |-> [c \in Cols |-> Zero]]

\* C12: get_last_minus_first called with min_group = max_group = g, a group
\* of the ramp, returns an lmf that is zero at every pixel of every
\* integration and a median_lmf that is zero at every pixel.
C12_SameGroupZeroSlope ==
    (pc \notin {"lmf", "error"} /\ MinGroup = MaxGroup) =>
        /\ lmf = ZeroLmf
        /\ median_lmf = ZeroFrame

\* the call with min_group = max_group on a group that is not flat
C12_Witness ==
    /\ pc = "loop"
    /\ MinGroup = MaxGroup
    /\ \E r1, r2 \in Rows : \E c1, c2 \in Cols :
          /\ ramp[0][MinGroup][r1][c1] # ramp[0][MinGroup][r2][c2]
          /\ ramp[0][MinGroup][r1][c1] # Zero
    /\ lmf = ZeroLmf

\* C14: while the frames are corrected, and when the product is saved, the
\* ramp of the superbias product, the base mask, the mask the caller passed
\* and lmf, median_lmf of the uncorrected ramp keep their values; only
\* refpix, the copy, is written.
C14_PassLeavesInputsAlone ==
    [][(pc = "loop" \/ pc = "done") =>
          (/\ ramp' = ramp
           /\ mask' = mask
           /\ uniluminated_mask' = uniluminated_mask
           /\ lmf' = lmf
           /\ median_lmf' = median_lmf)]_vars

\* a pass that has changed every frame of the copy
C14_Witness ==
    /\ pc = "done"
    /\ \A n \in Ints : \A g \in Groups : refpix[n][g] # ramp[n][g]
    /\ lmf # ZeroLmf

\* the corrected frame of an uncorrected frame under the base mask
CorrectedFrame(frame, base_mask, preamp_correction) ==
    IF preamp_correction = "loom"
    THEN SubtractModel(frame,
             get_loom(frame, cc_uniluminated_outliers(frame, base_mask, CcNsigma)).loom)
    ELSE SubtractModel(frame, get_roeba(frame, base_mask))

MaxSkipped == 2
\* at most MaxOverrides override keywords in kwargs
MaxOverrides == 2
\* at most MaxFound products of an earlier call in the output folder
MaxFound == 1

\* the steps that stage1 skips when they are named in skip_steps
SkipNames ==
    {"dqinit", "saturation", "superbias", "refpix", "linearity", "darkcurrent",
     "jumpstep"}

\* the override keywords that stage1 looks for or reads
OverrideKeys ==
    {"override_saturation", "override_superbias", "override_linearity",
     "override_darkcurrent", "override_dark", "override_readnoise", "override_gain"}

\* the product files that stage1 looks for
FileNames == SkipNames \cup {"loom", "roeba", "rampstep"}

\* the reference file that the caller passes under an override keyword
ReferenceFile == [k \in OverrideKeys |-> <<"reference file", k>>]

BoundedSubsets(S, n) == {T \in SUBSET S : Cardinality(T) <= n}

\* one step call: Step.call(input, ..., **overrides), or a product that was
\* loaded from the file of an earlier call
Call(step, overrides, loaded) ==
    [step |-> step, overrides |-> overrides, loaded |-> loaded]

\* uncal_data = datamodels.RampModel(datafile)
UncalData == <<Call("uncal", <<>>, TRUE)>>

\* datamodels.RampModel(output_filename)
Loaded(step) == <<Call(step, <<>>, TRUE)>>

\* Step.call(input, ..., **overrides)
StepCall(step, input, overrides) == Append(input, Call(step, overrides, FALSE))

\* output_dictionary[key] = value
Put(dictionary, key, value) == (key :> value) @@ dictionary

\* the keyword arguments kwargs[k] for k in keys
Lookup(keys) == [k \in keys |-> kwargs[k]]

\* a step of the form
\*   if name not in skip_steps: if not os.path.exists(...): Step.call(...)
\*                              else: load the product
\*   else: output_dictionary[name] = the input
\* where the call reads the keywords reads of kwargs
RunStep(name, input, reads, next) ==
    /\ pc = name
    /\ IF name \in skip_steps
       THEN /\ output_dictionary' = Put(output_dictionary, name, input)
            /\ pc' = next
            /\ UNCHANGED err
       ELSE IF name \in files
       THEN /\ output_dictionary' = Put(output_dictionary, name, Loaded(name))
            /\ pc' = next
            /\ UNCHANGED err
       ELSE IF ~(reads \subseteq DOMAIN kwargs)
       THEN /\ err' = "KeyError"
            /\ pc' = "error"
            /\ UNCHANGED output_dictionary
       ELSE /\ output_dictionary' =
                  Put(output_dictionary, name, StepCall(name, input, Lookup(reads)))
            /\ pc' = next
            /\ UNCHANGED err
    /\ UNCHANGED <<data, mask, method, group_mask, model, sys, npass, ramp, kwargs,
                   uniluminated_mask, refpix, lmf, lmf_after, i, j, product,
                   median_lmf, skip_steps, files>>

\* if 'override_x' in kwargs.keys(): ... override_x = kwargs['override_x']
ReadsOwn(key) == IF key \in DOMAIN kwargs THEN {key} ELSE {}

\* if 'override_darkcurrent' in kwargs.keys(): ... kwargs['override_dark']
ReadsDarkCurrent ==
    IF "override_darkcurrent" \in DOMAIN kwargs THEN {"override_dark"} ELSE {}

\* the four branches of the jump step
ReadsJump ==
    IF "override_readnoise" \in DOMAIN kwargs /\ "override_gain" \in DOMAIN kwargs
    THEN {"override_readnoise", "override_gain"}
    ELSE IF "override_readnoise" \in DOMAIN kwargs THEN {"override_readnoise"}
    ELSE IF "override_gain" \in DOMAIN kwargs THEN {"override_gain"}
    ELSE {}

\* the branches of the ramp-fit step: the third test is elif 'override_gain':,
\* a string that is not empty, so that the last branch is never taken
ReadsRampFit ==
    IF "override_readnoise" \in DOMAIN kwargs /\ "override_gain" \in DOMAIN kwargs
    THEN {"override_readnoise", "override_gain"}
    ELSE IF "override_readnoise" \in DOMAIN kwargs THEN {"override_readnoise"}
    ELSE {"override_gain"}

InitPipeline ==
    /\ skip_steps \in BoundedSubsets(SkipNames, MaxSkipped)
    /\ kwargs \in {[k \in K |-> ReferenceFile[k]] :
                      K \in BoundedSubsets(OverrideKeys, MaxOverrides)}
    /\ files \in BoundedSubsets(FileNames, MaxFound)
    /\ method \in {"stsci", "loom", "roeba"}
    /\ output_dictionary = <<>>
    /\ pc = "dqinit"
    /\ err = "none"
    /\ data = None
    /\ mask = None
    /\ group_mask = None
    /\ model = None
    /\ sys = None
    /\ npass = 0
    /\ ramp = None
    /\ uniluminated_mask = None
    /\ refpix = None
    /\ lmf = None
    /\ lmf_after = None
    /\ i = 0
    /\ j = 0
    /\ product = None
    /\ median_lmf = None

DQInitStep == RunStep("dqinit", UncalData, {}, "saturation")

SaturationStep ==
    RunStep("saturation", output_dictionary["dqinit"],
            ReadsOwn("override_saturation"), "superbias")

SuperBiasStep ==
    RunStep("superbias", output_dictionary["saturation"],
            ReadsOwn("override_superbias"), "refpix")

\* the reference pixel step: RefPixStep is called for preamp_correction =
\* 'stsci' only
RefPixStep ==
    /\ pc = "refpix"
    /\ output_dictionary' =
          IF "refpix" \in skip_steps
          THEN Put(output_dictionary, "refpix", output_dictionary["superbias"])
          ELSE IF method # "stsci" THEN output_dictionary
          ELSE IF "refpix" \in files
          THEN Put(output_dictionary, "refpix", Loaded("refpix"))
          ELSE Put(output_dictionary, "refpix",
                   StepCall("refpix", output_dictionary["superbias"], <<>>))
    /\ pc' = "preamp"
    /\ UNCHANGED <<data, mask, method, group_mask, model, sys, npass, ramp, kwargs,
                   uniluminated_mask, refpix, lmf, lmf_after, i, j, product, err,
                   median_lmf, skip_steps, files>>

\* if (preamp_correction == 'loom') or (preamp_correction == 'roeba'): the
\* superbias product is corrected, and the mask, the corrected product and
\* the two last-minus-first estimates are saved in output_dictionary
PreampCorrection ==
    /\ pc = "preamp"
    /\ output_dictionary' =
          IF method \in {"loom", "roeba"}
          THEN LET corrected ==
                       IF method \in files THEN Loaded(method)
                       ELSE StepCall(method, output_dictionary["superbias"], <<>>)
               IN  Put(Put(Put(Put(output_dictionary,
                       "mask", <<Call("mask", <<>>, FALSE)>>),
                       "refpix", corrected),
                       "lmf_before", <<Call("lmf_before", <<>>, FALSE)>>),
                       "lmf_after", <<Call("lmf_after", <<>>, FALSE)>>)
          ELSE output_dictionary
    /\ pc' = "linearity"
    /\ UNCHANGED <<data, mask, method, group_mask, model, sys, npass, ramp, kwargs,
                   uniluminated_mask, refpix, lmf, lmf_after, i, j, product, err,
                   median_lmf, skip_steps, files>>

LinearityStep ==
    RunStep("linearity", output_dictionary["refpix"],
            ReadsOwn("override_linearity"), "darkcurrent")

DarkCurrentStep ==
    RunStep("darkcurrent", output_dictionary["linearity"], ReadsDarkCurrent, "jumpstep")

JumpStep ==
    RunStep("jumpstep", output_dictionary["darkcurrent"], ReadsJump, "rampstep")

\* the ramp-fit step; "rampstep" is never in skip_steps here
RampFitStep ==
    RunStep("rampstep", output_dictionary["jumpstep"], ReadsRampFit, "clean")

\* the skipped names are popped, the rates are added, the dictionary is
\* returned
CleanAndReturn ==
    /\ pc = "clean"
    /\ LET popped == [k \in (DOMAIN output_dictionary) \ skip_steps |->
                         output_dictionary[k]]
           assign_wcs == StepCall("assign_wcs", output_dictionary["rampstep"], <<>>)
       IN  output_dictionary' =
               Put(Put(Put(popped, "rateints", assign_wcs),
                       "rateints_err", assign_wcs), "rateints_dq", assign_wcs)
    /\ pc' = "returned"
    /\ UNCHANGED <<data, mask, method, group_mask, model, sys, npass, ramp, kwargs,
                   uniluminated_mask, refpix, lmf, lmf_after, i, j, product, err,
                   median_lmf, skip_steps, files>>

NextPipeline ==
    \/ DQInitStep
    \/ SaturationStep
    \/ SuperBiasStep
    \/ RefPixStep
    \/ PreampCorrection
    \/ LinearityStep
    \/ DarkCurrentStep
    \/ JumpStep
    \/ RampFitStep
    \/ CleanAndReturn

SpecPipeline == InitPipeline /\ [][NextPipeline]_vars

(***************************************************************************)
(* Properties of SpecPipeline.                                             *)
(***************************************************************************)
\* the names of the step calls that made a product
StepsOf(prod) == {prod[k].step : k \in 1 .. Len(prod)}

\* C16: a step named in skip_steps is not called and the returned dictionary
\* has no entry under its name; with 'refpix' in skip_steps the product
\* handed to the linearity step is the superbias product, with no refpix,
\* loom or roeba correction applied to it.
C16_SkippedStepsNotApplied ==
    /\ pc = "returned" =>
          \A s \in skip_steps :
              /\ s \notin DOMAIN output_dictionary
              /\ s \notin StepsOf(output_dictionary["rateints"])
    /\ (pc = "linearity" /\ "refpix" \in skip_steps) =>
          /\ output_dictionary["refpix"] = output_dictionary["superbias"]
          /\ StepsOf(output_dictionary["refpix"]) \cap {"refpix", "loom", "roeba"} = {}

\* C18: no step ends in a KeyError, and every step call is given only
\* override arguments that the caller passed, with the values passed.
C18_OverridesReadOnlyWhenSupplied ==
    /\ err # "KeyError"
    /\ \A key \in DOMAIN output_dictionary :
          \A k \in 1 .. Len(output_dictionary[key]) :
              LET given == output_dictionary[key][k].overrides
              IN  \A a \in DOMAIN given :
                      a \in DOMAIN kwargs /\ given[a] = kwargs[a]

====
